---- MODULE Spec2Model ----
(***************************************************************************)
(* Model of the two applications of the repository:                        *)
(*   - backend/server.py: the /api/analyze endpoint (validation, the       *)
(*     credential check, the scoped scanner connection around the agent    *)
(*     run, the response formatting), one process per in-flight request;   *)
(*   - airline.py: the prices table seeded at start-up and the two agent   *)
(*     tools get_ticket_price and calculate.                               *)
(* The two applications are separate processes; each has its own           *)
(* specification (SpecAnalyzer, SpecAirline) over the same variables.      *)
(* Strings are sequences of one-character strings, so that formatting and  *)
(* concatenation are computed, not assumed.                                *)
(***************************************************************************)
EXTENDS Integers, Sequences, FiniteSets, TLC

VARIABLES
    apiKey,     \* os.getenv("OPENAI_API_KEY") of the backend process
    pc,         \* per request: position inside analyze_code
    code,       \* per request: request.code
    conn,       \* per request: state of its scanner (MCP) connection
    pending,    \* per request: outcome of the body of the async-with block
    response,   \* per request: the HTTP response produced
    connects,   \* per request: number of scanner connections attempted
    runs,       \* per request: number of Runner.run invocations
    raised,     \* per request: messages of the exceptions raised in the try block
    tableExists,\* airline: the prices table exists in prices.db
    rows,       \* airline: rows of the prices table, in insertion order
    started,    \* airline: number of start-ups (module-level seeding runs)
    lastCall    \* airline: the last tool call (or start-up) and its result

analyzerVars == <<apiKey, pc, code, conn, pending, response, connects, runs, raised>>
airlineVars == <<tableExists, rows, started, lastCall>>
vars == <<apiKey, pc, code, conn, pending, response, connects, runs, raised,
          tableExists, rows, started, lastCall>>

----------------------------------------------------------------------------
(* Bounds *)

\* longest request.code drawn as an input
MaxCodeLen == 2
\* number of start-ups of the airline process
MaxStarts == 3

----------------------------------------------------------------------------
(* Strings *)

S_Analyzed == <<"A", "n", "a", "l", "y", "z", "e", "d", " ">>
S_CharactersOfPythonCode ==
    <<" ", "c", "h", "a", "r", "a", "c", "t", "e", "r", "s", " ", "o", "f", " ",
      "P", "y", "t", "h", "o", "n", " ", "c", "o", "d", "e", ".", " ">>
S_NoCodeProvided ==
    <<"N", "o", " ", "c", "o", "d", "e", " ", "p", "r", "o", "v", "i", "d", "e",
      "d", " ", "f", "o", "r", " ", "a", "n", "a", "l", "y", "s", "i", "s">>
S_KeyNotConfigured ==
    <<"O", "p", "e", "n", "A", "I", " ", "A", "P", "I", " ", "k", "e", "y", " ",
      "n", "o", "t", " ", "c", "o", "n", "f", "i", "g", "u", "r", "e", "d">>
S_AnalysisFailed ==
    <<"A", "n", "a", "l", "y", "s", "i", "s", " ", "f", "a", "i", "l", "e", "d",
      ":", " ">>
S_NoIssuesFound ==
    <<"N", "o", " ", "i", "s", "s", "u", "e", "s", " ", "f", "o", "u", "n", "d", ".">>
S_TimedOut == <<"t", "i", "m", "e", "d", " ", "o", "u", "t">>
S_NoAttrSummary ==
    <<"n", "o", " ", "a", "t", "t", "r", "i", "b", "u", "t", "e", " ",
      "'", "s", "u", "m", "m", "a", "r", "y", "'">>

DigitChar == <<"0", "1", "2", "3", "4", "5", "6", "7", "8", "9">>

\* str(n) of a non-negative int
RECURSIVE IntStr(_)
IntStr(n) ==
    IF n < 10 THEN <<DigitChar[n + 1]>>
    ELSE IntStr(n \div 10) \o <<DigitChar[(n % 10) + 1]>>

Whitespace == {" ", "\n", "\t"}

\* str.lstrip() / str.rstrip() / str.strip()
RECURSIVE lstrip(_)
lstrip(s) ==
    IF s # <<>> /\ Head(s) \in Whitespace THEN lstrip(Tail(s)) ELSE s

RECURSIVE rstrip(_)
rstrip(s) ==
    IF s # <<>> /\ s[Len(s)] \in Whitespace
    THEN rstrip(SubSeq(s, 1, Len(s) - 1)) ELSE s

strip(s) == rstrip(lstrip(s))

----------------------------------------------------------------------------
(* backend: inputs *)

Requests == {"r1", "r2"}

CodeChars == {" ", "x"}

\* two longer inputs, of 42 and of 10 characters, so that len(code) has two digits
LongCodes == {[i \in 1..42 |-> "x"], [i \in 1..10 |-> IF i = 1 THEN " " ELSE "x"]}

Codes == (UNION {[1..n -> CodeChars] : n \in 0..MaxCodeLen}) \cup LongCodes

\* the three values os.getenv("OPENAI_API_KEY") can have
EnvUnset == [none |-> TRUE, value |-> <<>>]
EnvEmpty == [none |-> FALSE, value |-> <<>>]
EnvKey == [none |-> FALSE, value |-> <<"s", "k">>]
EnvValues == {EnvUnset, EnvEmpty, EnvKey}

\* two SecurityIssue values the agent can produce; cvss_score in tenths.
\* The model's fields carry no constraint beyond their type (server.py 101-114).
IssueA == [title |-> "SQL injection", description |-> "query built by concatenation",
           code |-> "execute(q + name)", fix |-> "use parameters",
           cvss_score |-> 98, severity |-> "critical"]
IssueB == [title |-> "Debug mode", description |-> "debug enabled",
           code |-> "debug=True", fix |-> "disable debug",
           cvss_score |-> 110, severity |-> "info"]

IssueLists == {<<>>, <<IssueA>>, <<IssueB>>, <<IssueA, IssueB>>, <<IssueB, IssueA>>}

Summaries == {S_NoIssuesFound, <<>>}

\* SecurityReport
SecurityReport(summary, issues) == [summary |-> summary, issues |-> issues]

Reports == {SecurityReport(s, i) : s \in Summaries, i \in IssueLists}

NoReport == SecurityReport(<<>>, <<>>)

\* messages of the exceptions the external collaborators raise
ErrorMessages == {S_TimedOut, <<>>}

----------------------------------------------------------------------------
(* backend: responses and outcomes *)

NoResponse == [status |-> 0, detail |-> <<>>, report |-> NoReport]

\* HTTPException(status_code, detail) as FastAPI answers it
HTTPException(status_code, detail) ==
    [status |-> status_code, detail |-> detail, report |-> NoReport]

\* a returned SecurityReport, answered with 200
Ok(report) == [status |-> 200, detail |-> <<>>, report |-> report]

NoOutcome == [kind |-> "none", report |-> NoReport, msg |-> <<>>]
Returned(report) == [kind |-> "report", report |-> report, msg |-> <<>>]
\* final_output_as hands back an object that is no SecurityReport
ReturnedOther == [kind |-> "other", report |-> NoReport, msg |-> <<>>]
Raised(msg) == [kind |-> "exc", report |-> NoReport, msg |-> msg]

----------------------------------------------------------------------------
(* backend: helpers of server.py and context.py *)

\* validate_request without the strip(): only the empty string is refused
validate_request_nostrip(c) ==
    IF c = <<>> THEN HTTPException(400, S_NoCodeProvided) ELSE NoResponse

\* validate_request: the HTTPException it raises, or NoResponse when it returns
validate_request(c) ==
    IF strip(c) = <<>> THEN HTTPException(400, S_NoCodeProvided) ELSE NoResponse

\* check_api_keys testing "is None" instead of truthiness: an empty key passes
check_api_keys_is_none(key) ==
    IF key.none THEN HTTPException(500, S_KeyNotConfigured) ELSE NoResponse

\* check_api_keys: the HTTPException it raises, or NoResponse when it returns
check_api_keys(key) ==
    IF key.none \/ key.value = <<>>
    THEN HTTPException(500, S_KeyNotConfigured) ELSE NoResponse

\* context.enhance_summary
enhance_summary(code_length, agent_summary) ==
    S_Analyzed \o IntStr(code_length) \o S_CharactersOfPythonCode \o agent_summary

\* format_analysis_response counting the stripped code
format_analysis_response_stripped(c, report) ==
    SecurityReport(enhance_summary(Len(strip(c)), report.summary), report.issues)

\* format_analysis_response
format_analysis_response(c, report) ==
    SecurityReport(enhance_summary(Len(c), report.summary), report.issues)

\* the except clause without str(e) in the detail
AnalysisFailed_nomsg(msg) == HTTPException(500, S_AnalysisFailed)

\* the except clause of analyze_code: any Exception becomes a 500 with str(e)
AnalysisFailed(msg) == HTTPException(500, S_AnalysisFailed \o msg)

\* the checks in the other order: the credential first
PreChecks_keyfirst(c, key) ==
    IF check_api_keys(key).status # 0 THEN check_api_keys(key)
    ELSE validate_request(c)

\* the two checks analyze_code makes before the try block, in its order:
\* the HTTPException that leaves the handler, or NoResponse when both pass
PreChecks(c, key) ==
    IF validate_request(c).status # 0 THEN validate_request(c)
    ELSE check_api_keys(key)

\* the connection closed only on the success path (no scoped release)
ConnAfterExit_leak(outcome) == IF outcome.kind = "exc" THEN "open" ELSE "closed"

\* state of the scanner connection once the async-with block is left,
\* whatever the outcome of its body (MCPServerStdio.__aexit__)
ConnAfterExit(outcome) == "closed"

\* a single scanner server shared by the requests: closing it closes every
\* open connection
Release_shared(cn, r, outcome) ==
    [q \in Requests |-> IF q = r \/ cn[q] = "open" THEN "closed" ELSE cn[q]]

\* leaving the async-with block of request r: the server object is local to
\* the call of run_security_analysis, only r's connection is released
Release(cn, r, outcome) == [cn EXCEPT ![r] = ConnAfterExit(outcome)]

\* an except clause that starts the analysis again, once
ExceptStep_retry(n) ==
    IF n < 2 THEN [pc |-> "connecting", connects |-> n + 1]
    ELSE [pc |-> "done", connects |-> n]

\* where a request stands once the except clause of analyze_code has run,
\* n connections having been attempted: the HTTPException leaves the handler
ExceptStep(n) == [pc |-> "done", connects |-> n]

\* what analyze_code answers once run_security_analysis has ended with `outcome`
Answer(c, outcome) ==
    CASE outcome.kind = "report" -> Ok(format_analysis_response(c, outcome.report))
      [] outcome.kind = "other" -> AnalysisFailed(S_NoAttrSummary)
      [] OTHER -> AnalysisFailed(outcome.msg)

----------------------------------------------------------------------------
(* backend: the steps of one POST /api/analyze *)

\* the backend process after start-up, no request received yet; the airline
\* process is not part of this specification and stays idle
InitAnalyzer ==
    /\ apiKey \in EnvValues
    /\ pc = [r \in Requests |-> "idle"]
    /\ code = [r \in Requests |-> <<>>]
    /\ conn = [r \in Requests |-> "none"]
    /\ pending = [r \in Requests |-> NoOutcome]
    /\ response = [r \in Requests |-> NoResponse]
    /\ connects = [r \in Requests |-> 0]
    /\ runs = [r \in Requests |-> 0]
    /\ raised = [r \in Requests |-> <<>>]
    /\ tableExists = FALSE
    /\ rows = <<>>
    /\ started = 0
    /\ lastCall = [tool |-> "none", arg |-> <<>>, fails |-> FALSE,
                   result |-> [kind |-> "returned", value |-> <<>>,
                               exc |-> [type |-> "", msg |-> ""]]]

\* analyze_code up to its first suspension: validate_request, check_api_keys,
\* then run_security_analysis creates the server and starts connecting
Receive(r, c) ==
    /\ pc[r] = "idle"
    /\ code' = [code EXCEPT ![r] = c]
    /\ IF PreChecks(c, apiKey).status # 0
       THEN /\ response' = [response EXCEPT ![r] = PreChecks(c, apiKey)]
            /\ pc' = [pc EXCEPT ![r] = "done"]
            /\ UNCHANGED connects
       ELSE /\ connects' = [connects EXCEPT ![r] = @ + 1]
            /\ pc' = [pc EXCEPT ![r] = "connecting"]
            /\ UNCHANGED response
    /\ UNCHANGED airlineVars
    /\ UNCHANGED <<apiKey, conn, pending, runs, raised>>

\* __aenter__ succeeds: the agent is created and Runner.run is awaited
ConnectOk(r) ==
    /\ pc[r] = "connecting"
    /\ conn' = [conn EXCEPT ![r] = "open"]
    /\ runs' = [runs EXCEPT ![r] = @ + 1]
    /\ pc' = [pc EXCEPT ![r] = "running"]
    /\ UNCHANGED airlineVars
    /\ UNCHANGED <<apiKey, code, pending, response, connects, raised>>

\* __aenter__ raises: the body never runs, the except clause answers
ConnectFail(r, m) ==
    /\ pc[r] = "connecting"
    /\ raised' = [raised EXCEPT ![r] = Append(@, m)]
    /\ response' = [response EXCEPT ![r] = Answer(code[r], Raised(m))]
    /\ pc' = [pc EXCEPT ![r] = ExceptStep(connects[r]).pc]
    /\ connects' = [connects EXCEPT ![r] = ExceptStep(connects[r]).connects]
    /\ UNCHANGED airlineVars
    /\ UNCHANGED <<apiKey, code, conn, pending, runs>>

\* Runner.run returns and final_output_as hands back `out`; the block is left
RunnerReturn(r, out) ==
    /\ pc[r] = "running"
    /\ pending' = [pending EXCEPT ![r] = out]
    /\ pc' = [pc EXCEPT ![r] = "releasing"]
    /\ UNCHANGED airlineVars
    /\ UNCHANGED <<apiKey, code, conn, response, connects, runs, raised>>

\* Runner.run raises (runner failure, tool-call error, malformed output)
RunnerRaise(r, m) ==
    /\ pc[r] = "running"
    /\ pending' = [pending EXCEPT ![r] = Raised(m)]
    /\ raised' = [raised EXCEPT ![r] = Append(@, m)]
    /\ pc' = [pc EXCEPT ![r] = "releasing"]
    /\ UNCHANGED airlineVars
    /\ UNCHANGED <<apiKey, code, conn, response, connects, runs>>

\* __aexit__ ends; back in analyze_code the report is formatted and returned,
\* or the except clause answers
ReleaseDone(r) ==
    /\ pc[r] = "releasing"
    /\ conn' = Release(conn, r, pending[r])
    /\ raised' = [raised EXCEPT ![r] =
                    IF pending[r].kind = "other" THEN Append(@, S_NoAttrSummary) ELSE @]
    /\ response' = [response EXCEPT ![r] = Answer(code[r], pending[r])]
    /\ pc' = [pc EXCEPT ![r] =
                IF pending[r].kind = "report" THEN "done"
                ELSE ExceptStep(connects[r]).pc]
    /\ connects' = [connects EXCEPT ![r] =
                      IF pending[r].kind = "report" THEN @
                      ELSE ExceptStep(connects[r]).connects]
    /\ UNCHANGED airlineVars
    /\ UNCHANGED <<apiKey, code, pending, runs>>

NextAnalyzer ==
    \/ \E r \in Requests, c \in Codes : Receive(r, c)
    \/ \E r \in Requests : ConnectOk(r)
    \/ \E r \in Requests, m \in ErrorMessages : ConnectFail(r, m)
    \/ \E r \in Requests, rep \in Reports : RunnerReturn(r, Returned(rep))
    \/ \E r \in Requests : RunnerReturn(r, ReturnedOther)
    \/ \E r \in Requests, m \in ErrorMessages : RunnerRaise(r, m)
    \/ \E r \in Requests : ReleaseDone(r)

----------------------------------------------------------------------------
(* airline: numbers and strings *)

\* a Python number: an int or a float, its value held in tenths
PyInt(n) == [isFloat |-> FALSE, tenths |-> 10 * n]
PyFloat(t) == [isFloat |-> TRUE, tenths |-> t]

Abs(n) == IF n < 0 THEN 0 - n ELSE n

\* str(x) of a Python int or float (repr of a float with one decimal digit)
NumStr(x) ==
    (IF x.tenths < 0 THEN <<"-">> ELSE <<>>)
    \o IntStr(Abs(x.tenths) \div 10)
    \o (IF x.isFloat THEN <<".", DigitChar[(Abs(x.tenths) % 10) + 1]>> ELSE <<>>)

LowerLetters == <<"a", "b", "c", "d", "e", "f", "g", "h", "i", "j", "k", "l", "m", "n", "o", "p", "q", "r", "s", "t", "u", "v", "w", "x", "y", "z">>
UpperLetters == <<"A", "B", "C", "D", "E", "F", "G", "H", "I", "J", "K", "L", "M", "N", "O", "P", "Q", "R", "S", "T", "U", "V", "W", "X", "Y", "Z">>

\* str.lower(), character by character
lowerChar(ch) ==
    IF \E i \in 1..Len(UpperLetters) : UpperLetters[i] = ch
    THEN LowerLetters[CHOOSE i \in 1..Len(UpperLetters) : UpperLetters[i] = ch]
    ELSE ch

lower(s) == [i \in 1..Len(s) |-> lowerChar(s[i])]

upperChar(ch) ==
    IF \E i \in 1..Len(LowerLetters) : LowerLetters[i] = ch
    THEN UpperLetters[CHOOSE i \in 1..Len(LowerLetters) : LowerLetters[i] = ch]
    ELSE ch

S_london == <<"l", "o", "n", "d", "o", "n">>
S_paris == <<"p", "a", "r", "i", "s">>
S_tokyo == <<"t", "o", "k", "y", "o">>
S_sydney == <<"s", "y", "d", "n", "e", "y">>
S_berlin == <<"b", "e", "r", "l", "i", "n">>
S_NotFound == <<"N", "o", "t", " ", "f", "o", "u", "n", "d">>
S_Error == <<"E", "r", "r", "o", "r", ":", " ">>

----------------------------------------------------------------------------
(* airline: the prices table *)

\* initial_ticket_prices, in the order of the dict
initial_ticket_prices ==
    << [city |-> S_london, price |-> PyInt(799)],
       [city |-> S_paris, price |-> PyInt(899)],
       [city |-> S_tokyo, price |-> PyInt(1400)],
       [city |-> S_sydney, price |-> PyInt(2999)] >>

SeedCities == {initial_ticket_prices[i].city : i \in 1..Len(initial_ticket_prices)}

\* the column "price REAL": an integer stored in it is converted to a float
RealAffinity(x) == [isFloat |-> TRUE, tenths |-> x.tenths]

HasCity(tbl, city) == \E i \in 1..Len(tbl) : tbl[i].city = city

\* a plain INSERT into a table without the key: duplicates are appended
InsertOrIgnore_plain(tbl, city, price) ==
    Append(tbl, [city |-> city, price |-> RealAffinity(price)])

\* INSERT OR IGNORE INTO prices (city, price) VALUES (?, ?), city the PRIMARY KEY
InsertOrIgnore(tbl, city, price) ==
    IF HasCity(tbl, city) THEN tbl
    ELSE Append(tbl, [city |-> city, price |-> RealAffinity(price)])

\* the for loop over initial_ticket_prices.items(), from item k on
RECURSIVE SeedFrom(_, _)
SeedFrom(tbl, k) ==
    IF k > Len(initial_ticket_prices) THEN tbl
    ELSE SeedFrom(InsertOrIgnore(tbl, initial_ticket_prices[k].city,
                                 initial_ticket_prices[k].price), k + 1)

\* SELECT price FROM prices WHERE city = ? ; fetchone(): the rows that match
Select(tbl, city) == SelectSeq(tbl, LAMBDA row : row.city = city)

----------------------------------------------------------------------------
(* airline: exceptions and tool results *)

Exc(type, msg) == [type |-> type, msg |-> msg]
NoExc == Exc("", "")

\* the classes that derive from BaseException but not from Exception
BaseOnly == {"SystemExit", "KeyboardInterrupt", "GeneratorExit"}

\* traceback.format_exc(): the header, the frames, then "Type: message"
format_exc(e) ==
    <<"Traceback (most recent call last):\n", "  File \"airline.py\", line ...\n",
      e.type, ": ", e.msg, "\n">>

ToolReturned(value) == [kind |-> "returned", value |-> value, exc |-> NoExc]
ToolRaised(e) == [kind |-> "raised", value |-> <<>>, exc |-> e]

\* an except clause that returns f"Error: {e}", the message without the traceback
ExceptException_short(e) ==
    IF e.type \in BaseOnly THEN ToolRaised(e)
    ELSE ToolReturned(S_Error \o <<e.type, ": ", e.msg>>)

\* "except Exception: return f'Error: {traceback.format_exc()}'" around a body
\* that raised e: caught when e is an Exception, propagated otherwise
ExceptException(e) ==
    IF e.type \in BaseOnly THEN ToolRaised(e)
    ELSE ToolReturned(S_Error \o format_exc(e))

----------------------------------------------------------------------------
(* airline: eval() of the expressions drawn as inputs *)

\* numeric literals of the input expressions
LitToks == {"799", "2", "0", "0.9"}
IntLitToks == {"799", "2", "0"}

LitValue(tok) ==
    CASE tok = "799" -> PyInt(799)
      [] tok = "2" -> PyInt(2)
      [] tok = "0" -> PyInt(0)
      [] tok = "0.9" -> PyFloat(9)

OpToks == {"*", "+", "-", "/"}

S_DeleteRows ==
    "__import__('sqlite3').connect('prices.db', isolation_level=None).execute('DELETE FROM prices').rowcount"

\* the expressions handed to calculate: "a op b" (the left operand an int
\* literal, a divisor 0 or 2, so that every value has at most one decimal
\* digit), the malformed "a op", a name lookup, a call of exit, and a call
\* that deletes the rows of the prices table
ArithExprs ==
    {<<a, op, b>> : a \in IntLitToks, op \in {"*", "+", "-"}, b \in LitToks}
    \cup {<<a, "/", b>> : a \in IntLitToks, b \in {"0", "2"}}
MalformedExprs == {<<a, op>> : a \in IntLitToks, op \in OpToks}
OtherExprs == {<<"price">>, <<"exit", "(", ")">>, <<S_DeleteRows>>}
Exprs == ArithExprs \cup MalformedExprs \cup OtherExprs

IsArith(expr) ==
    /\ Len(expr) = 3
    /\ expr[1] \in LitToks /\ expr[2] \in OpToks /\ expr[3] \in LitToks

EvalNum(x) == [kind |-> "num", num |-> x, exc |-> NoExc, deletes |-> FALSE]
EvalExc(e) == [kind |-> "exc", num |-> PyInt(0), exc |-> e, deletes |-> FALSE]

\* a op b on Python numbers: int unless an operand is a float, "/" always float
BinOp(a, op, b) ==
    CASE op = "+" ->
           EvalNum([isFloat |-> a.isFloat \/ b.isFloat, tenths |-> a.tenths + b.tenths])
      [] op = "-" ->
           EvalNum([isFloat |-> a.isFloat \/ b.isFloat, tenths |-> a.tenths - b.tenths])
      [] op = "*" ->
           EvalNum([isFloat |-> a.isFloat \/ b.isFloat,
                    tenths |-> (a.tenths * b.tenths) \div 10])
      [] op = "/" ->
           IF b.tenths = 0 THEN EvalExc(Exc("ZeroDivisionError", "division by zero"))
           ELSE EvalNum(PyFloat((a.tenths * 10) \div b.tenths))

\* eval(expr): Python's eval, which runs any expression, not only arithmetic;
\* nrows is the number of rows of the prices table when it runs
Eval(expr, nrows) ==
    CASE IsArith(expr) -> BinOp(LitValue(expr[1]), expr[2], LitValue(expr[3]))
      [] expr \in MalformedExprs -> EvalExc(Exc("SyntaxError", "invalid syntax"))
      [] expr = <<"price">> -> EvalExc(Exc("NameError", "name 'price' is not defined"))
      [] expr = <<"exit", "(", ")">> -> EvalExc(Exc("SystemExit", "None"))
      [] expr = <<S_DeleteRows>> ->
           [kind |-> "num", num |-> PyInt(nrows), exc |-> NoExc, deletes |-> TRUE]

----------------------------------------------------------------------------
(* airline: the tools *)

\* get_ticket_price without its try / except: a storage failure propagates
get_ticket_price_unguarded(city, tbl, storageFails) ==
    IF storageFails
    THEN ToolRaised(Exc("sqlite3.OperationalError", "unable to read prices"))
    ELSE IF Select(tbl, lower(city)) # <<>>
         THEN ToolReturned(<<"$">> \o NumStr(Select(tbl, lower(city))[1].price))
         ELSE ToolReturned(S_NotFound)

\* get_ticket_price(city); storageFails: sqlite3 raises (no table, locked or
\* unreadable file) inside the try block
get_ticket_price(city, tbl, storageFails) ==
    IF storageFails
    THEN ExceptException(Exc("sqlite3.OperationalError", "unable to read prices"))
    ELSE IF Select(tbl, lower(city)) # <<>>
         THEN ToolReturned(<<"$">> \o NumStr(Select(tbl, lower(city))[1].price))
         ELSE ToolReturned(S_NotFound)

\* calculate(expr): str(eval(expr)) inside try / except Exception
calculate(expr, nrows) ==
    IF Eval(expr, nrows).kind = "exc"
    THEN ExceptException(Eval(expr, nrows).exc)
    ELSE ToolReturned(NumStr(Eval(expr, nrows).num))

----------------------------------------------------------------------------
(* airline: start-up and tool calls *)

NoCall == [tool |-> "none", arg |-> <<>>, fails |-> FALSE, result |-> ToolReturned(<<>>)]

\* prices.db before the first start-up modelled: absent, or left by an
\* earlier run of the program (then it holds what that run's seeding left);
\* the backend is not part of this specification and stays idle
InitAirline ==
    /\ tableExists \in BOOLEAN
    /\ rows = IF tableExists THEN SeedFrom(<<>>, 1) ELSE <<>>
    /\ started = 0
    /\ lastCall = NoCall
    /\ apiKey = EnvUnset
    /\ pc = [r \in Requests |-> "idle"]
    /\ code = [r \in Requests |-> <<>>]
    /\ conn = [r \in Requests |-> "none"]
    /\ pending = [r \in Requests |-> NoOutcome]
    /\ response = [r \in Requests |-> NoResponse]
    /\ connects = [r \in Requests |-> 0]
    /\ runs = [r \in Requests |-> 0]
    /\ raised = [r \in Requests |-> <<>>]

\* the module-level block: CREATE TABLE IF NOT EXISTS, the INSERT OR IGNORE
\* loop, commit
Startup ==
    /\ started < MaxStarts
    /\ tableExists' = TRUE
    /\ rows' = SeedFrom(rows, 1)
    /\ started' = started + 1
    /\ lastCall' = [tool |-> "startup", arg |-> <<>>, fails |-> FALSE,
                    result |-> ToolReturned(<<>>)]
    /\ UNCHANGED analyzerVars

\* every letter-casing of a word
Casings(w) ==
    {[i \in 1..Len(w) |-> IF i \in m THEN upperChar(w[i]) ELSE w[i]] :
        m \in SUBSET (1..Len(w))}

\* city names that are not seeded in any casing
AbsentCityInputs == {S_berlin, <<"B">> \o Tail(S_berlin), <<>>, S_london \o <<" ">>}

\* the city names handed to get_ticket_price: the seeded cities in every
\* casing, and names that are not seeded
CityInputs ==
    (UNION {Casings(c) : c \in SeedCities})
    \cup AbsentCityInputs

\* the agent runtime calls get_ticket_price(city)
GetTicketPrice(city, fails) ==
    /\ started >= 1
    /\ lastCall' = [tool |-> "get_ticket_price", arg |-> city, fails |-> fails,
                    result |-> get_ticket_price(city, rows, fails \/ ~tableExists)]
    /\ UNCHANGED <<tableExists, rows, started>>
    /\ UNCHANGED analyzerVars

\* the agent runtime calls calculate(expr)
Calculate(expr) ==
    /\ started >= 1
    /\ lastCall' = [tool |-> "calculate", arg |-> expr, fails |-> FALSE,
                    result |-> calculate(expr, Len(rows))]
    /\ rows' = IF Eval(expr, Len(rows)).deletes THEN <<>> ELSE rows
    /\ UNCHANGED <<tableExists, started>>
    /\ UNCHANGED analyzerVars

NextAirline ==
    \/ Startup
    \/ \E city \in CityInputs, fails \in BOOLEAN : GetTicketPrice(city, fails)
    \/ \E expr \in Exprs : Calculate(expr)

----------------------------------------------------------------------------
(* Specifications *)

\* the backend: concurrent requests to POST /api/analyze
SpecAnalyzer == InitAnalyzer /\ [][NextAnalyzer]_vars

\* the airline process: start-ups and tool calls
SpecAirline == InitAirline /\ [][NextAirline]_vars

----------------------------------------------------------------------------
(* Properties *)

\* a string that is empty or holds whitespace only
Blank(c) == \A i \in 1..Len(c) : c[i] \in Whitespace

IsPrefix(p, str) == Len(p) <= Len(str) /\ SubSeq(str, 1, Len(p)) = p

\* C1: a request whose code is empty or whitespace-only is answered 400 and
\* never opens a scanner connection nor invokes Runner.run
C1_BlankCodeIs400 ==
    \A r \in Requests :
        (pc[r] # "idle" /\ Blank(code[r])) =>
            /\ pc[r] = "done"
            /\ response[r].status = 400
            /\ connects[r] = 0 /\ runs[r] = 0 /\ conn[r] = "none"

C1_Witness ==
    \E r \in Requests :
        /\ pc[r] = "done" /\ code[r] = <<" ", " ">> /\ apiKey = EnvKey
        /\ response[r].status = 400 /\ connects[r] = 0

\* C2: with non-empty code and the credential absent or empty the answer is
\* 500 "OpenAI API key not configured" and no scanner connection is attempted
C2_MissingKeyIs500 ==
    \A r \in Requests :
        (pc[r] # "idle" /\ ~Blank(code[r]) /\ apiKey \in {EnvUnset, EnvEmpty}) =>
            /\ pc[r] = "done"
            /\ response[r].status = 500
            /\ response[r].detail = S_KeyNotConfigured
            /\ connects[r] = 0 /\ runs[r] = 0 /\ conn[r] = "none"

C2_Witness ==
    \E r \in Requests :
        /\ apiKey = EnvEmpty /\ pc[r] = "done" /\ code[r] = <<"x">>
        /\ response[r].status = 500 /\ connects[r] = 0

\* C3: once a failure was raised inside the delegated analysis, the request is
\* never answered 200, and its answer is 500 with "Analysis failed: " followed
\* by the message of the failure; a request that got past both checks ends
\* with 200 or 500 only
C3_FailureIs500 ==
    \A r \in Requests :
        /\ (raised[r] # <<>>) =>
              /\ response[r].status # 200
              /\ (pc[r] = "done" =>
                    /\ response[r].status = 500
                    /\ response[r].detail = S_AnalysisFailed \o raised[r][Len(raised[r])])
        /\ (pc[r] = "done" /\ connects[r] > 0) => response[r].status \in {200, 500}
        /\ (response[r].status = 200) => raised[r] = <<>>

C3_Witness ==
    \E r \in Requests :
        /\ pc[r] = "done" /\ pending[r] = Raised(S_TimedOut)
        /\ response[r].status = 500
        /\ response[r].detail = S_AnalysisFailed \o S_TimedOut

\* C4: the runner runs only while the request's connection is open, it was
\* opened before the runner was invoked, and when the response exists (200 or
\* 500) the connection is not open any more
C4_ScopedConnection ==
    \A r \in Requests :
        /\ (pc[r] = "running") => conn[r] = "open"
        /\ (runs[r] > 0) => conn[r] # "none"
        /\ (response[r].status # 0) => conn[r] # "open"
        /\ (response[r].status # 0 /\ runs[r] > 0) => conn[r] = "closed"

C4_Witness ==
    \E r \in Requests :
        /\ pc[r] = "done" /\ pending[r].kind = "exc" /\ runs[r] = 1
        /\ conn[r] = "closed" /\ response[r].status = 500

S_CharactersOfCode ==
    <<" ", "c", "h", "a", "r", "a", "c", "t", "e", "r", "s", " ", "o", "f", " ",
      "c", "o", "d", "e", ".", " ">>
S_Summary42 ==
    <<"A", "n", "a", "l", "y", "z", "e", "d", " ", "4", "2", " ", "c", "h", "a",
      "r", "a", "c", "t", "e", "r", "s", " ", "o", "f", " ", "P", "y", "t", "h",
      "o", "n", " ", "c", "o", "d", "e", ".", " ", "N", "o", " ", "i", "s", "s",
      "u", "e", "s", " ", "f", "o", "u", "n", "d", ".">>

\* C5 as stated: the summary is "Analyzed N characters of code. " + S and the
\* issues are those of the delegated report
C5_SummaryOfCode ==
    \A r \in Requests :
        (response[r].status = 200) =>
            /\ response[r].report.summary =
                  S_Analyzed \o IntStr(Len(code[r])) \o S_CharactersOfCode
                  \o pending[r].report.summary
            /\ response[r].report.issues = pending[r].report.issues

\* C5 amended: the summary is "Analyzed N characters of Python code. " + S and
\* the issues are those of the delegated report, in order and content
C5_SummaryOfPythonCode ==
    \A r \in Requests :
        (response[r].status = 200) =>
            /\ pending[r].kind = "report"
            /\ response[r].report.summary =
                  S_Analyzed \o IntStr(Len(code[r])) \o S_CharactersOfPythonCode
                  \o pending[r].report.summary
            /\ response[r].report.issues = pending[r].report.issues

C5_Witness ==
    \E r \in Requests :
        /\ response[r].status = 200 /\ Len(code[r]) = 42
        /\ pending[r].report = SecurityReport(S_NoIssuesFound, <<IssueB, IssueA>>)
        /\ response[r].report.summary = S_Summary42
        /\ response[r].report.issues = <<IssueB, IssueA>>

\* the price initial_ticket_prices gives a seeded city
SeedPrice(city) ==
    initial_ticket_prices[CHOOSE i \in 1..Len(initial_ticket_prices) :
                            initial_ticket_prices[i].city = city].price

\* a seeded city in any letter-casing (stated without str.lower)
IsCasingOf(name, city) ==
    /\ Len(name) = Len(city)
    /\ \A i \in 1..Len(city) : name[i] \in {city[i], upperChar(city[i])}

\* C6: for a seeded city in any casing, with the table as seeded and no
\* storage failure, get_ticket_price returns "$" and the seeded value as the
\* seed mapping writes it ("$799" for London)
C6_SeededPrice ==
    \A c \in SeedCities :
        (/\ lastCall.tool = "get_ticket_price" /\ ~lastCall.fails
         /\ IsCasingOf(lastCall.arg, c) /\ HasCity(rows, c)) =>
            lastCall.result = ToolReturned(<<"$">> \o NumStr(SeedPrice(c)))

\* C7: every call of get_ticket_price returns a string: "Not found" for a
\* city that is not seeded, "Error: ..." on a storage failure
C7_PriceToolReturnsString ==
    (lastCall.tool = "get_ticket_price") =>
        /\ lastCall.result.kind = "returned"
        /\ lastCall.fails => IsPrefix(S_Error, lastCall.result.value)
        /\ (~lastCall.fails /\ lastCall.arg \in AbsentCityInputs) =>
              lastCall.result.value = S_NotFound

C7_Witness ==
    /\ lastCall.tool = "get_ticket_price" /\ lastCall.arg = S_berlin
    /\ ~lastCall.fails /\ lastCall.result = ToolReturned(S_NotFound)

RowSet(tbl) == {tbl[i] : i \in 1..Len(tbl)}

\* C8: after every run of the seeding step the table holds exactly one row
\* per seeded city and no other row, and the rows are those one run leaves
C8_SeedingIdempotent ==
    (lastCall.tool = "startup") =>
        /\ \A c \in SeedCities :
              Cardinality({i \in 1..Len(rows) : rows[i].city = c}) = 1
        /\ Len(rows) = Cardinality(SeedCities)
        /\ RowSet(rows) =
              {[city |-> c, price |-> RealAffinity(SeedPrice(c))] : c \in SeedCities}

C8_Witness ==
    /\ lastCall.tool = "startup" /\ started = 3
    /\ Len(rows) = 4 /\ HasCity(rows, S_sydney)

S_719_1 == <<"7", "1", "9", ".", "1">>

\* C9: every call of calculate returns a string: the value of "799 * 0.9" as
\* "719.1", an error string for a malformed expression, and no exception ever
\* leaves the tool
C9_CalculateReturnsString ==
    (lastCall.tool = "calculate") =>
        /\ lastCall.result.kind = "returned"
        /\ (lastCall.arg = <<"799", "*", "0.9">>) => lastCall.result.value = S_719_1
        /\ (lastCall.arg = <<"799", "*">>) => IsPrefix(S_Error, lastCall.result.value)

\* C10: after start-up the prices table keeps the rows the seeding left,
\* whatever calculate and get_ticket_price are called with
C10_TableReadOnly ==
    (started >= 1) =>
        /\ tableExists
        /\ RowSet(rows) =
              {[city |-> c, price |-> RealAffinity(SeedPrice(c))] : c \in SeedCities}

\* C11: within one request the scanner connection is opened at most once and
\* the runner invoked at most once; at most one failure is raised, and after
\* it the request only releases its connection and is answered 500, with no
\* further attempt
C11_NoRetry ==
    \A r \in Requests :
        /\ connects[r] <= 1 /\ runs[r] <= 1 /\ Len(raised[r]) <= 1
        /\ (raised[r] # <<>>) => pc[r] \in {"releasing", "done"}
        /\ (raised[r] # <<>> /\ pc[r] = "done") => response[r].status = 500

C11_Witness ==
    \E r \in Requests :
        /\ pc[r] = "done" /\ raised[r] = <<S_TimedOut>>
        /\ connects[r] = 1 /\ runs[r] = 0 /\ response[r].status = 500

S_TracebackHeader == "Traceback (most recent call last):\n"

HasTraceback(str) == \E i \in 1..Len(str) : str[i] = S_TracebackHeader

\* a call whose body raised an Exception: a storage failure in
\* get_ticket_price, or in calculate a malformed expression, an unknown name
\* or a division by zero
CaughtFailure ==
    \/ lastCall.tool = "get_ticket_price" /\ lastCall.fails
    \/ /\ lastCall.tool = "calculate"
       /\ \/ lastCall.arg \in MalformedExprs
          \/ lastCall.arg = <<"price">>
          \/ (Len(lastCall.arg) = 3 /\ lastCall.arg[2] = "/" /\ lastCall.arg[3] = "0")

Severities == {"critical", "high", "medium", "low"}

\* C13: every issue of a report answered with 200 has a cvss score within
\* [0.0, 10.0] (0..100 tenths) and a severity among critical, high, medium, low
C13_IssuesInRange ==
    \A r \in Requests :
        (response[r].status = 200) =>
            \A i \in 1..Len(response[r].report.issues) :
                /\ response[r].report.issues[i].cvss_score \in 0..100
                /\ response[r].report.issues[i].severity \in Severities

\* what a step leaves alone of request q
Untouched(q) ==
    /\ pc'[q] = pc[q] /\ code'[q] = code[q] /\ conn'[q] = conn[q]
    /\ pending'[q] = pending[q] /\ response'[q] = response[q]
    /\ connects'[q] = connects[q] /\ runs'[q] = runs[q] /\ raised'[q] = raised[q]

\* C14: every step changes the state of one request only (its connection, its
\* outcome, its response), and two requests with the same code, the same
\* delegated outcome and the same failures get the same response, whatever
\* the interleaving
C14_RequestsIsolated ==
    /\ [][\E r \in Requests : \A q \in Requests \ {r} : Untouched(q)]_vars
    /\ [](\A r, q \in Requests :
            (/\ pc[r] = "done" /\ pc[q] = "done" /\ code[r] = code[q]
             /\ pending[r] = pending[q] /\ raised[r] = raised[q]) =>
                response[r] = response[q])

C14_Witness ==
    \E r, q \in Requests :
        /\ r # q /\ pc[r] = "done" /\ response[r].status = 500 /\ conn[r] = "closed"
        /\ pc[q] = "running" /\ conn[q] = "open"

\* C15: empty or whitespace-only code is answered 400 "No code provided for
\* analysis" also when the credential is missing; a 400 and the 500 of the
\* missing credential are produced before any delegated call and never carry
\* the "Analysis failed: " prefix of the handler's except clause
C15_ValidationOrder ==
    \A r \in Requests :
        /\ (pc[r] # "idle" /\ Blank(code[r])) =>
              response[r] = HTTPException(400, S_NoCodeProvided)
        /\ (pc[r] = "done" /\ connects[r] = 0) =>
              /\ response[r] \in {HTTPException(400, S_NoCodeProvided),
                                  HTTPException(500, S_KeyNotConfigured)}
              /\ ~IsPrefix(S_AnalysisFailed, response[r].detail)
        /\ (response[r].status = 400 \/ response[r].detail = S_KeyNotConfigured) =>
              connects[r] = 0 /\ runs[r] = 0

C15_Witness ==
    \E r \in Requests :
        /\ apiKey = EnvUnset /\ code[r] = <<" ">> /\ pc[r] = "done"
        /\ response[r] = HTTPException(400, S_NoCodeProvided)

====
